---- MODULE Spec2Model ----
(***************************************************************************)
(* MongoDBClient (app/db/mongo/client.py): the connection handle, its      *)
(* health-check task and the coroutines that call it, run by one asyncio   *)
(* event loop.                                                             *)
(*                                                                         *)
(* A coroutine runs without interruption from one await to the next, so    *)
(* every action that runs code is "the event loop takes the task at the    *)
(* head of its ready queue and steps it to its next suspension".  The      *)
(* code is written as operators from a world (a record of every variable)  *)
(* to the world the code leaves; an action commits the world its step      *)
(* produced.                                                               *)
(***************************************************************************)
EXTENDS Integers, Sequences, FiniteSets, TLC

\* ---------------------------------------------------------------- bounds
MaxConns == 3        \* connection objects the handle may open
MaxTicks == 1        \* refresh intervals that may elapse
MaxCalls == 2        \* operations the callers may invoke
MaxUpdates == 2      \* update() calls made on the repository
MaxValue == 3        \* field values, identifiers among them, are 1..MaxValue
MaxOps == 4          \* operations the threads may invoke on the registry
MaxTeardownCalls == 3    \* operations invoked from startup to shutdown

\* ------------------------------------------------------------- constants
RefreshInterval == 300   \* self._refresh_interval, seconds
None == 0                \* Python's None, for a connection or task reference

Callers == {1, 2}                              \* coroutines of the application
\* Tasks made by _start_health_check: one at most for each connection opened.
HealthIds == {2 + i : i \in 1..MaxConns}
Tasks == Callers \cup HealthIds
LoopThread == "MainThread"                     \* every coroutine runs on the loop's thread

Names == {"default", "other"}                  \* config names
Configs == {1, 2}                              \* MongoDBConfig objects
Threads == {1, 2}                              \* threads that use the registry

VARIABLES
    client,              \* self.client: None or the connection object
    is_ready,            \* self.is_ready
    last_refresh_time,   \* self.last_refresh_time
    health_check_task,   \* self._health_check_task: None or a task
    lock,                \* self._lock, a threading.RLock: owner thread and hold count
    opened,              \* connection objects created so far (they are 1..opened)
    closed,              \* connection objects on which close() was called
    tasks,               \* every coroutine: its call stack, where it waits, what it returned
    ready,               \* the event loop's FIFO queue of tasks to step
    now,                 \* time.time()
    calls,               \* operations invoked so far
    sessions,            \* store sessions started and not ended, by the task that holds each
    configs,             \* the registry's self._configs: name -> config, or None
    clients,             \* the registry's self._clients: name -> handle, or None
    handles,             \* the handles constructed, in order: what each was built from
    threads,             \* every thread: its line in create_client, its locals
    returned,            \* name -> the handles create_client(name) has returned, in order
    ops,                 \* registry operations invoked so far
    documents,           \* the collection: the stored document under each identifier
    upd,                 \* the update() call of the repository: where it is, what it sent
    updates              \* update() calls made so far

vars == <<client, is_ready, last_refresh_time, health_check_task, lock, opened,
          closed, tasks, ready, now, calls, sessions,
          configs, clients, handles, threads, returned, ops,
          documents, upd, updates>>

\* The registry and what it made, which no operation of a handle touches.
registry == <<configs, clients, handles, threads, returned, ops>>

\* The collection and the repository's call, which neither touches.
repository == <<documents, upd, updates>>

\* The handle of the event-loop model, which no operation of the registry touches.
handle == <<client, is_ready, last_refresh_time, health_check_task, lock, opened,
            closed, tasks, ready, now, calls, sessions>>

Range(s) == {s[i] : i \in 1..Len(s)}

\* The identifiers of the stored documents, the values a field may hold, the
\* fields of an entity, the entities (dicts over some of the fields) and the
\* id strings a caller may pass.
DocIds == {1, 2}
Values == 1..MaxValue
Fields == {"_id", "name"}
Entities == UNION {[K -> Values] : K \in SUBSET Fields}
IdStrings == {"1", "2", "3", "zz"}

\* No update() has been called.
NoUpdate ==
    [pc |-> "idle", id |-> "none", arg |-> <<>>, entity |-> <<>>, query |-> 0,
     set |-> <<>>, out |-> "none", res |-> "none"]

\* A coroutine that is not running any code of the handle.
Blank(kind, st) ==
    [kind |-> kind, st |-> st, op |-> "none", stack |-> <<>>, line |-> 0, await |-> "none",
     conn |-> None, on |-> None, must_cancel |-> FALSE, out |-> "none",
     res |-> "none", pre |-> "none", raced |-> FALSE, waiters |-> <<>>]

\* MongoDBClient.__init__
Init ==
    /\ client = None
    /\ is_ready = FALSE
    /\ last_refresh_time = 0
    /\ health_check_task = None
    /\ lock = [owner |-> "none", count |-> 0]
    /\ opened = 0
    /\ closed = {}
    /\ tasks = [t \in Tasks |-> IF t \in Callers THEN Blank("caller", "idle")
                                                 ELSE Blank("health", "none")]
    /\ ready = <<>>
    /\ now = 1
    /\ calls = 0
    /\ sessions = {}
    /\ configs = [n \in Names |-> None]
    /\ clients = [n \in Names |-> None]
    /\ handles = <<>>
    /\ threads = [t \in Threads |-> [pc |-> 0, op |-> "none", calls |-> 0,
                                     name |-> "default", config |-> None,
                                     client |-> None, err |-> "none"]]
    /\ returned = [n \in Names |-> <<>>]
    /\ ops = 0
    /\ documents = [d \in DocIds |-> [_id |-> d, name |-> 1]]
    /\ upd = NoUpdate
    /\ updates = 0

World ==
    [client |-> client, is_ready |-> is_ready, last_refresh_time |-> last_refresh_time,
     health_check_task |-> health_check_task, lock |-> lock, opened |-> opened,
     closed |-> closed, tasks |-> tasks, ready |-> ready, now |-> now,
     sessions |-> sessions, stuck |-> FALSE]

\* The step's world becomes the next state; a step that ran out of the model's
\* bounds (w.stuck) is not taken.
Commit(w) ==
    /\ ~w.stuck
    /\ client' = w.client
    /\ is_ready' = w.is_ready
    /\ last_refresh_time' = w.last_refresh_time
    /\ health_check_task' = w.health_check_task
    /\ lock' = w.lock
    /\ opened' = w.opened
    /\ closed' = w.closed
    /\ tasks' = w.tasks
    /\ ready' = w.ready
    /\ sessions' = w.sessions
    /\ UNCHANGED <<now, calls, registry, repository>>

\* ------------------------------------------------------------- asyncio
\* What the code below uses of asyncio: a task suspends on a future (a probe,
\* a sleep, another task), is queued when the future completes, and is stepped
\* in queue order.

Top(w, t) == w.tasks[t].stack[Len(w.tasks[t].stack)]

Push(w, t, f) == [w EXCEPT !.tasks[t].stack = Append(@, f)]

Pop(w, t) == [w EXCEPT !.tasks[t].stack = SubSeq(@, 1, Len(@) - 1)]

\* `await` of a future that is not done: the task leaves the loop until the
\* future completes.
Suspend(w, t, kind, c) ==
    [w EXCEPT !.tasks[t].st = "waiting", !.tasks[t].await = kind,
              !.tasks[t].conn = c, !.tasks[t].on = None, !.tasks[t].out = "none"]

\* `await task` of another task that is not done.
AwaitTask(w, t, h) ==
    [w EXCEPT !.tasks[t].st = "waiting", !.tasks[t].await = "task",
              !.tasks[t].conn = None, !.tasks[t].on = h, !.tasks[t].out = "none",
              !.tasks[h].waiters = Append(@, t)]

\* `await task` by the task itself: Task.__step sees the task yield itself and
\* schedules its next step with RuntimeError("Task cannot await on itself").
AwaitSelf(w, t) ==
    [w EXCEPT !.tasks[t].st = "ready", !.tasks[t].await = "self",
              !.tasks[t].conn = None, !.tasks[t].on = t,
              !.tasks[t].out = "RuntimeError", !.ready = Append(@, t)]

\* Task.cancel(): nothing on a finished task; passed on to the task it awaits;
\* cancels the future it waits on (the task is queued with CancelledError);
\* otherwise, the task running or already queued, CancelledError is thrown into
\* it at its next step (_must_cancel).
RECURSIVE Cancel(_, _)
Cancel(w, h) ==
    LET tk == w.tasks[h] IN
    IF tk.st \in {"none", "done"} THEN w
    ELSE IF tk.st = "waiting" /\ tk.await = "task" THEN Cancel(w, tk.on)
    ELSE IF tk.st = "waiting"
         THEN [w EXCEPT !.tasks[h].st = "ready", !.tasks[h].out = "CancelledError",
                        !.ready = Append(@, h)]
         ELSE [w EXCEPT !.tasks[h].must_cancel = TRUE]

\* Task.__step: the head of the queue runs; a pending cancellation replaces
\* whatever the awaited future produced.
Deliver(w, t) ==
    [w EXCEPT !.ready = Tail(@),
              !.tasks[t].st = "running",
              !.tasks[t].must_cancel = FALSE,
              !.tasks[t].out = IF w.tasks[t].must_cancel THEN "CancelledError" ELSE @]

\* A task's coroutine has ended (how: "returned" or "cancelled"): the tasks
\* awaiting it are queued in the order they began to wait.
Finish(w, t, how) ==
    LET ws == w.tasks[t].waiters IN
    [w EXCEPT !.ready = @ \o ws,
              !.tasks = [u \in Tasks |->
                  IF u = t THEN [Blank("health", "done") EXCEPT !.res = how]
                  ELSE IF u \in Range(ws)
                       THEN [w.tasks[u] EXCEPT !.st = "ready",
                                 !.out = IF how = "cancelled" THEN "CancelledError" ELSE "ok"]
                       ELSE w.tasks[u]]]

\* A caller's operation is over: with a value, or with the exception it raised.
CallerDone(w, t, res) ==
    [w EXCEPT !.tasks[t].st = "idle", !.tasks[t].stack = <<>>, !.tasks[t].line = 0,
              !.tasks[t].await = "none", !.tasks[t].conn = None, !.tasks[t].on = None,
              !.tasks[t].out = "none", !.tasks[t].res = res]

\* threading.RLock.acquire: free, or held by the calling thread (then the hold
\* count grows); held by another thread, the call blocks.
Acquire(w, thread) ==
    IF w.lock.owner \in {"none", thread}
    THEN [w EXCEPT !.lock = [owner |-> thread, count |-> w.lock.count + 1]]
    ELSE [w EXCEPT !.stuck = TRUE]

\* threading.RLock.release
Release(w) ==
    [w EXCEPT !.lock = [owner |-> IF w.lock.count = 1 THEN "none" ELSE w.lock.owner,
                        count |-> w.lock.count - 1]]

\* ------------------------------------------------------ MongoDBClient
\* Each coroutine of client.py is an operator named after it; where the code
\* awaits, the operator ends in a suspension and <name>_resume is the code
\* after the await.  Return and Raise carry a result or an exception to the
\* calling frame.

RECURSIVE Return(_, _, _), Raise(_, _, _), connect(_, _), disconnect(_, _),
          is_connected(_, _), refresh_connection(_, _), health_check_routine(_, _)

\* _start_health_check: create_task queues the new task; the handle keeps it.
start_health_check(w) ==
    LET free == {h \in HealthIds : w.tasks[h].st = "none"} IN
    IF free = {} THEN [w EXCEPT !.stuck = TRUE]
    ELSE LET h == CHOOSE x \in free : \A y \in free : x <= y IN
         [w EXCEPT !.tasks[h] = [Blank("health", "ready") EXCEPT
                                     !.op = "health_check_routine",
                                     !.stack = <<"health_check_routine">>,
                                     !.await = "start"],
                   !.ready = Append(@, h),
                   !.health_check_task = h]

\* connect() without its guard: it opens a connection whatever the handle holds.
connect_unguarded(w, t) ==
    LET w0 == Push(w, t, "connect") IN
    IF w0.opened >= MaxConns THEN [w0 EXCEPT !.stuck = TRUE]
    ELSE LET c == w0.opened + 1 IN
         Suspend([w0 EXCEPT !.client = c, !.opened = c], t, "ping", c)

\* connect(), to its await of the probe.
connect(w, t) ==
    LET w0 == Push(w, t, "connect") IN
    IF w0.client # None THEN Return(w0, t, "None")
    ELSE IF w0.opened >= MaxConns THEN [w0 EXCEPT !.stuck = TRUE]
    ELSE LET c == w0.opened + 1 IN
         Suspend([w0 EXCEPT !.client = c, !.opened = c], t, "ping", c)

\* connect(), after the probe.
connect_resume(w, t) ==
    LET out == w.tasks[t].out IN
    IF out = "ok"
    THEN Return(start_health_check([w EXCEPT !.is_ready = TRUE,
                                             !.last_refresh_time = w.now]), t, "None")
    ELSE IF out = "ConnectionFailure"
    THEN Raise([w EXCEPT !.is_ready = FALSE], t, out)
    ELSE Raise(w, t, out)

\* disconnect() dropping the connection object without closing it.
disconnect_close_dropped(w, t) ==
    IF w.client = None THEN Raise(w, t, "AttributeError")
    ELSE Return([w EXCEPT !.client = None, !.is_ready = FALSE], t, "None")

\* disconnect(), lines 127-130: close the connection and clear it.  With no
\* connection left, self.client.close() is an attribute access on None.
disconnect_close(w, t) ==
    IF w.client = None THEN Raise(w, t, "AttributeError")
    ELSE Return([w EXCEPT !.closed = @ \cup {w.client},
                          !.client = None,
                          !.is_ready = FALSE], t, "None")

\* disconnect() without its test of self.client.
disconnect_unguarded(w, t) ==
    LET w0 == Push(w, t, "disconnect") IN
    IF w0.health_check_task = None THEN disconnect_close(w0, t)
    ELSE LET h  == w0.health_check_task
             w1 == Cancel(w0, h)
         IN  IF w1.tasks[h].st = "done"
             THEN disconnect_close([w1 EXCEPT !.health_check_task = None], t)
             ELSE IF h = t THEN AwaitSelf(w1, t)
             ELSE AwaitTask(w1, t, h)

\* disconnect(), to its await of the health-check task.  A finished task is
\* awaited without suspending.
disconnect(w, t) ==
    LET w0 == Push(w, t, "disconnect") IN
    IF w0.client = None THEN Return(w0, t, "None")
    ELSE IF w0.health_check_task = None THEN disconnect_close(w0, t)
    ELSE LET h  == w0.health_check_task
             w1 == Cancel(w0, h)
         IN  IF w1.tasks[h].st = "done"
             THEN disconnect_close([w1 EXCEPT !.health_check_task = None], t)
             ELSE IF h = t THEN AwaitSelf(w1, t)
             ELSE AwaitTask(w1, t, h)

\* disconnect(), after the await: CancelledError is swallowed.
disconnect_resume(w, t) ==
    LET out == w.tasks[t].out IN
    IF out \in {"ok", "CancelledError"}
    THEN disconnect_close([w EXCEPT !.health_check_task = None], t)
    ELSE Raise(w, t, out)

\* is_connected(), to its await of the probe.
is_connected(w, t) ==
    LET w0 == Push(w, t, "is_connected") IN
    IF w0.client = None \/ ~w0.is_ready THEN Return(w0, t, "False")
    ELSE Suspend(w0, t, "ping", w0.client)

\* is_connected() without its except clause: a probe failure is raised.
is_connected_resume_raising(w, t) ==
    LET out == w.tasks[t].out IN
    IF out = "ok" THEN Return(w, t, "True") ELSE Raise(w, t, out)

\* is_connected(), after the probe: `except Exception` does not catch
\* CancelledError, a BaseException.
is_connected_resume(w, t) ==
    LET out == w.tasks[t].out IN
    IF out = "ok" THEN Return(w, t, "True")
    ELSE IF out = "CancelledError" THEN Raise(w, t, out)
    ELSE Return([w EXCEPT !.is_ready = FALSE], t, "False")

\* get_database(): a lookup against the connection object the handle holds
\* now; ConnectionError when it holds none.  The task keeps what it resolved.
get_database(w, t) ==
    LET w0 == Push(w, t, "get_database") IN
    IF w0.client = None THEN Raise(w0, t, "ConnectionError")
    ELSE Return([w0 EXCEPT !.tasks[t].conn = w0.client], t, "Database")

\* get_collection(): get_database(), then the collection of that database.
get_collection(w, t) == get_database(Push(w, t, "get_collection"), t)

\* MongoOperation.get_collection answering with the collection of the first
\* connection the handle opened, kept since the facade was constructed.
operation_get_collection_kept(w, t) ==
    IF w.opened = 0 THEN get_collection(w, t)
    ELSE Return([Push(w, t, "get_collection") EXCEPT !.tasks[t].conn = 1], t, "Collection")

\* MongoOperation.get_collection: asks the handle, on every call.
operation_get_collection(w, t) == get_collection(w, t)

\* MongoOperation.find_one and the operations of the same shape: resolve the
\* collection, then await the store call on it.
find_one(w, t) == operation_get_collection(Push(w, t, "find_one"), t)

\* find_one, the collection resolved: the store call is awaited.
find_one_32(w, t) == Suspend(w, t, "store", w.tasks[t].conn)

\* find_one, after the store call: its result or its failure, unchanged.
find_one_resume(w, t) ==
    LET out == w.tasks[t].out IN
    IF out = "ok" THEN Return(w, t, "Document") ELSE Raise(w, t, out)

\* session(), line 171: await self.client.start_session(), on whatever
\* self.client is now.
session_171(w, t) ==
    IF w.client = None THEN Raise(w, t, "AttributeError")
    ELSE Suspend(w, t, "start_session", w.client)

\* session(), lines 167-169: connect() first when the handle holds no
\* connection object.
session(w, t) ==
    LET w0 == Push(w, t, "session") IN
    IF w0.client = None THEN connect(w0, t) ELSE session_171(w0, t)

\* session(), after start_session: the session is yielded and the caller's
\* work runs inside the scope; and after that work, however it ended: the
\* `async with` ends the session, then the error of the work, if any, goes on.
session_resume(w, t) ==
    LET out == w.tasks[t].out IN
    IF w.tasks[t].await = "start_session"
    THEN IF out = "ok"
         THEN Suspend([w EXCEPT !.sessions = @ \cup {t}], t, "work", w.tasks[t].conn)
         ELSE Raise(w, t, out)
    ELSE LET w1 == [w EXCEPT !.sessions = @ \ {t}] IN
         IF out = "ok" THEN Return(w1, t, "None") ELSE Raise(w1, t, out)

\* get_mongo_client (dependencies.py): is_connected(), and when it answers
\* false a refresh_connection() whose failure becomes an HTTPException.
get_mongo_client(w, t) == is_connected(Push(w, t, "get_mongo_client"), t)

\* refresh_connection(), lines 159-161: take the lock, call disconnect().
refresh_connection(w, t) ==
    disconnect(Acquire(Push(w, t, "refresh_connection"), LoopThread), t)

\* refresh_connection(), line 162: disconnect() returned, call connect().
refresh_connection_162(w, t) == connect(w, t)

\* refresh_connection(), line 163: connect() returned; leave the with block.
refresh_connection_163(w, t) ==
    Return([Release(w) EXCEPT !.last_refresh_time = w.now], t, "None")

\* asyncio.sleep inside health_check_routine, at the given line.
sleep(w, t, line) ==
    Suspend([w EXCEPT !.tasks[t].line = line], t, "sleep", None)

\* health_check_routine, the top of an iteration (lines 177-184).
health_check_routine(w, t) ==
    IF w.now - w.last_refresh_time > RefreshInterval
    THEN refresh_connection([w EXCEPT !.tasks[t].line = 181], t)
    ELSE sleep(w, t, 184)

\* health_check_routine, after a sleep.
health_check_routine_resume(w, t) ==
    LET out == w.tasks[t].out
        line == w.tasks[t].line
    IN  IF line = 184
        THEN IF out = "CancelledError" THEN Finish(w, t, "returned")
             ELSE is_connected([w EXCEPT !.tasks[t].line = 187], t)
        ELSE IF out = "CancelledError" THEN Finish(w, t, "cancelled")
             ELSE health_check_routine(w, t)

\* A frame returns v to the frame that awaits it.
Return(w, t, v) ==
    LET s  == w.tasks[t].stack
        f  == s[Len(s)]
        w1 == Pop(w, t)
    IN  IF Len(s) = 1 THEN CallerDone(w1, t, v)
        ELSE LET g == s[Len(s) - 1] IN
             IF g = "refresh_connection"
             THEN IF f = "disconnect" THEN refresh_connection_162(w1, t)
                  ELSE refresh_connection_163(w1, t)
             ELSE IF g = "get_collection" THEN Return(w1, t, "Collection")
             ELSE IF g = "find_one" THEN find_one_32(w1, t)
             ELSE IF g = "session" THEN session_171(w1, t)
             ELSE IF g = "get_mongo_client"
                  THEN IF f = "is_connected" /\ v # "True"
                       THEN refresh_connection(w1, t)
                       ELSE Return(w1, t, "mongo_client")
             ELSE IF f = "refresh_connection"
                  THEN IF w1.tasks[t].line = 181 THEN sleep(w1, t, 184)
                       ELSE health_check_routine(w1, t)
                  ELSE IF v = "True" THEN health_check_routine(w1, t)
                       ELSE refresh_connection([w1 EXCEPT !.tasks[t].line = 190], t)

\* Raise without the `except Exception` of health_check_routine: any error
\* that reaches the routine ends its task.
Raise_escaping(w, t, exc) ==
    LET s  == w.tasks[t].stack
        w1 == Pop(w, t)
    IN  IF Len(s) = 1 THEN CallerDone(w1, t, exc)
        ELSE LET g == s[Len(s) - 1] IN
             IF g = "refresh_connection" THEN Raise(Release(w1), t, exc)
             ELSE IF g \in {"get_collection", "find_one", "session"} THEN Raise(w1, t, exc)
             ELSE IF g = "get_mongo_client"
                  THEN Raise(w1, t, IF exc = "CancelledError" THEN exc
                                    ELSE "HTTPException")
             ELSE Finish(w1, t, "returned")

\* An exception leaves a frame: the with block of refresh_connection releases
\* the lock and lets it pass; health_check_routine ends on CancelledError and
\* backs off on any other; get_collection, find_one and session let it pass;
\* get_mongo_client turns it into an HTTPException; a caller's operation ends
\* with it.
Raise(w, t, exc) ==
    LET s  == w.tasks[t].stack
        w1 == Pop(w, t)
    IN  IF Len(s) = 1 THEN CallerDone(w1, t, exc)
        ELSE LET g == s[Len(s) - 1] IN
             IF g = "refresh_connection" THEN Raise(Release(w1), t, exc)
             ELSE IF g \in {"get_collection", "find_one", "session"} THEN Raise(w1, t, exc)
             ELSE IF g = "get_mongo_client"
                  THEN Raise(w1, t, IF exc = "CancelledError" THEN exc
                                    ELSE "HTTPException")
             ELSE IF exc = "CancelledError" THEN Finish(w1, t, "returned")
                  ELSE sleep(w1, t, 197)

\* ------------------------------------------------------------- actions

\* The application invokes an operation of the handle: the coroutine is queued.
\* The callers are interchangeable: a caller is used once the ones before it are.
Call(t, op) ==
    /\ tasks[t].st = "idle"
    /\ \A u \in Callers : u < t => tasks[u].op # "none"
    /\ calls < MaxCalls
    /\ calls' = calls + 1
    /\ tasks' = [tasks EXCEPT ![t] = [Blank("caller", "ready") EXCEPT
                                          !.op = op, !.await = "start"]]
    /\ ready' = Append(ready, t)
    /\ UNCHANGED <<client, is_ready, last_refresh_time, health_check_task, lock,
                   opened, closed, now, sessions, registry,
                   repository>>

CallConnect(t) == Call(t, "connect")

CallDisconnect(t) == Call(t, "disconnect")

CallRefresh(t) == Call(t, "refresh_connection")

CallIsConnected(t) == Call(t, "is_connected")

\* The loop steps the task at the head of its queue.
AtHead(t) == ready # <<>> /\ Head(ready) = t

\* The handle as the specification names its states.
Connected == client # None /\ is_ready /\ health_check_task # None

\* A caller's operation starts to run.  pre and raced record what it found: the
\* state of the handle, and whether a refresh_connection() was inside its with
\* block.
Begin(t) ==
    [Deliver(World, t) EXCEPT
        !.tasks[t].pre = IF Connected THEN "Connected"
                         ELSE IF client = None THEN "absent" ELSE "partial",
        !.tasks[t].raced = (lock.count > 0)]

Starts(t, op) == AtHead(t) /\ tasks[t].await = "start" /\ tasks[t].op = op

RunConnect(t) == Starts(t, "connect") /\ Commit(connect(Begin(t), t))

RunDisconnect(t) == Starts(t, "disconnect") /\ Commit(disconnect(Begin(t), t))

RunRefresh(t) ==
    Starts(t, "refresh_connection") /\ Commit(refresh_connection(Begin(t), t))

RunIsConnected(t) == Starts(t, "is_connected") /\ Commit(is_connected(Begin(t), t))

Resumes(t, f) == AtHead(t) /\ tasks[t].await # "start" /\ Top(World, t) = f

ResumeConnect(t) ==
    Resumes(t, "connect") /\ Commit(connect_resume(Deliver(World, t), t))

ResumeDisconnect(t) ==
    Resumes(t, "disconnect") /\ Commit(disconnect_resume(Deliver(World, t), t))

ResumeIsConnected(t) ==
    Resumes(t, "is_connected") /\ Commit(is_connected_resume(Deliver(World, t), t))

\* The first step of a health-check task; cancelled before it, the coroutine
\* never enters its try block.
HealthStart(t) ==
    /\ Starts(t, "health_check_routine")
    /\ LET w == Deliver(World, t) IN
       Commit(IF w.tasks[t].out = "CancelledError" THEN Finish(w, t, "cancelled")
              ELSE health_check_routine(w, t))

\* A health-check task wakes from asyncio.sleep(30).
HealthWake(t) ==
    /\ Resumes(t, "health_check_routine") /\ tasks[t].line = 184
    /\ Commit(health_check_routine_resume(Deliver(World, t), t))

\* A health-check task wakes from its back-off, asyncio.sleep(5).
HealthBackoffWake(t) ==
    /\ Resumes(t, "health_check_routine") /\ tasks[t].line = 197
    /\ Commit(health_check_routine_resume(Deliver(World, t), t))

\* A future completes: the task waiting on it is queued with the outcome.
Wake(t, kind, out) ==
    /\ tasks[t].st = "waiting" /\ tasks[t].await = kind
    /\ tasks' = [tasks EXCEPT ![t].st = "ready", ![t].out = out]
    /\ ready' = Append(ready, t)
    /\ UNCHANGED <<client, is_ready, last_refresh_time, health_check_task, lock,
                   opened, closed, now, calls, sessions, registry,
                   repository>>

\* admin.command('ping') on a connection that is open, the store reachable.
PingOk(t) == tasks[t].conn \notin closed /\ Wake(t, "ping", "ok")

\* admin.command('ping') with the store unreachable.
PingConnectionFailure(t) == Wake(t, "ping", "ConnectionFailure")

\* admin.command('ping') on a connection that close() was called on.
PingClosed(t) == tasks[t].conn \in closed /\ Wake(t, "ping", "InvalidOperation")

\* The timer of an asyncio.sleep fires.
SleepDone(t) == Wake(t, "sleep", "ok")

\* More than a refresh interval passes.
Tick ==
    /\ now + RefreshInterval + 1 <= 1 + MaxTicks * (RefreshInterval + 1)
    /\ now' = now + RefreshInterval + 1
    /\ UNCHANGED <<client, is_ready, last_refresh_time, health_check_task, lock,
                   opened, closed, tasks, ready, calls, sessions, registry,
                   repository>>

Next ==
    \/ \E t \in Callers : CallConnect(t)
    \/ \E t \in Callers : CallDisconnect(t)
    \/ \E t \in Callers : CallRefresh(t)
    \/ \E t \in Callers : CallIsConnected(t)
    \/ \E t \in Callers : RunConnect(t)
    \/ \E t \in Callers : RunDisconnect(t)
    \/ \E t \in Callers : RunRefresh(t)
    \/ \E t \in Callers : RunIsConnected(t)
    \/ \E t \in Tasks : ResumeConnect(t)
    \/ \E t \in Tasks : ResumeDisconnect(t)
    \/ \E t \in Tasks : ResumeIsConnected(t)
    \/ \E t \in HealthIds : HealthStart(t)
    \/ \E t \in HealthIds : HealthWake(t)
    \/ \E t \in HealthIds : HealthBackoffWake(t)
    \/ \E t \in Tasks : PingOk(t)
    \/ \E t \in Tasks : PingConnectionFailure(t)
    \/ \E t \in Tasks : PingClosed(t)
    \/ \E t \in HealthIds : SleepDone(t)
    \/ Tick

Spec == Init /\ [][Next]_vars

\* The store reachable throughout: no probe fails for want of the store.
NextUp ==
    \/ \E t \in Callers : CallConnect(t)
    \/ \E t \in Callers : CallDisconnect(t)
    \/ \E t \in Callers : CallRefresh(t)
    \/ \E t \in Callers : CallIsConnected(t)
    \/ \E t \in Callers : RunConnect(t)
    \/ \E t \in Callers : RunDisconnect(t)
    \/ \E t \in Callers : RunRefresh(t)
    \/ \E t \in Callers : RunIsConnected(t)
    \/ \E t \in Tasks : ResumeConnect(t)
    \/ \E t \in Tasks : ResumeDisconnect(t)
    \/ \E t \in Tasks : ResumeIsConnected(t)
    \/ \E t \in HealthIds : HealthStart(t)
    \/ \E t \in HealthIds : HealthWake(t)
    \/ \E t \in HealthIds : HealthBackoffWake(t)
    \/ \E t \in Tasks : PingOk(t)
    \/ \E t \in Tasks : PingClosed(t)
    \/ \E t \in HealthIds : SleepDone(t)
    \/ Tick

SpecUp == Init /\ [][NextUp]_vars

\* ------------------------------------------------------ lookups, facade
CallGetDatabase(t) == Call(t, "get_database")

CallGetCollection(t) == Call(t, "get_collection")

CallFindOne(t) == Call(t, "find_one")

RunGetDatabase(t) == Starts(t, "get_database") /\ Commit(get_database(Begin(t), t))

RunGetCollection(t) ==
    Starts(t, "get_collection") /\ Commit(get_collection(Begin(t), t))

RunFindOne(t) == Starts(t, "find_one") /\ Commit(find_one(Begin(t), t))

ResumeFindOne(t) ==
    Resumes(t, "find_one") /\ Commit(find_one_resume(Deliver(World, t), t))

\* The store answers an operation issued on an open connection.
StoreOk(t) == tasks[t].conn \notin closed /\ Wake(t, "store", "ok")

\* The store cannot be reached by the operation.
StoreConnectionFailure(t) == Wake(t, "store", "ConnectionFailure")

\* An operation issued on a connection that close() was called on.
StoreClosed(t) == tasks[t].conn \in closed /\ Wake(t, "store", "InvalidOperation")

\* The handle with the lookups and the facade's operations among the calls.
NextReads ==
    \/ \E t \in Callers : CallConnect(t)
    \/ \E t \in Callers : CallDisconnect(t)
    \/ \E t \in Callers : CallRefresh(t)
    \/ \E t \in Callers : CallGetDatabase(t)
    \/ \E t \in Callers : CallGetCollection(t)
    \/ \E t \in Callers : CallFindOne(t)
    \/ \E t \in Callers : RunConnect(t)
    \/ \E t \in Callers : RunDisconnect(t)
    \/ \E t \in Callers : RunRefresh(t)
    \/ \E t \in Callers : RunGetDatabase(t)
    \/ \E t \in Callers : RunGetCollection(t)
    \/ \E t \in Callers : RunFindOne(t)
    \/ \E t \in Tasks : ResumeConnect(t)
    \/ \E t \in Tasks : ResumeDisconnect(t)
    \/ \E t \in HealthIds : ResumeIsConnected(t)
    \/ \E t \in Callers : ResumeFindOne(t)
    \/ \E t \in HealthIds : HealthStart(t)
    \/ \E t \in HealthIds : HealthWake(t)
    \/ \E t \in HealthIds : HealthBackoffWake(t)
    \/ \E t \in Tasks : PingOk(t)
    \/ \E t \in Tasks : PingConnectionFailure(t)
    \/ \E t \in Tasks : PingClosed(t)
    \/ \E t \in Callers : StoreOk(t)
    \/ \E t \in Callers : StoreConnectionFailure(t)
    \/ \E t \in Callers : StoreClosed(t)
    \/ \E t \in HealthIds : SleepDone(t)
    \/ Tick

SpecReads == Init /\ [][NextReads]_vars

\* ------------------------------------------------------ get_mongo_client
CallGetMongoClient(t) == Call(t, "get_mongo_client")

RunGetMongoClient(t) ==
    Starts(t, "get_mongo_client") /\ Commit(get_mongo_client(Begin(t), t))

\* The loop steps the task at the head of its queue, whatever it is doing.
Step(t) ==
    \/ RunConnect(t) \/ RunGetMongoClient(t)
    \/ ResumeConnect(t) \/ ResumeDisconnect(t) \/ ResumeIsConnected(t)
    \/ HealthStart(t) \/ HealthWake(t) \/ HealthBackoffWake(t)

\* The reply to a probe arrives, with whatever outcome.
PingReply(t) == PingOk(t) \/ PingConnectionFailure(t) \/ PingClosed(t)

\* The application as main.py and dependencies.py use the handle: connect()
\* at startup, get_mongo_client for the requests.
NextService ==
    \/ \E t \in Callers : CallConnect(t)
    \/ \E t \in Callers : CallGetMongoClient(t)
    \/ \E t \in Callers : RunConnect(t)
    \/ \E t \in Callers : RunGetMongoClient(t)
    \/ \E t \in Tasks : ResumeConnect(t)
    \/ \E t \in Tasks : ResumeDisconnect(t)
    \/ \E t \in Tasks : ResumeIsConnected(t)
    \/ \E t \in HealthIds : HealthStart(t)
    \/ \E t \in HealthIds : HealthWake(t)
    \/ \E t \in HealthIds : HealthBackoffWake(t)
    \/ \E t \in Tasks : PingOk(t)
    \/ \E t \in Tasks : PingConnectionFailure(t)
    \/ \E t \in Tasks : PingClosed(t)
    \/ \E t \in HealthIds : SleepDone(t)
    \/ Tick

\* Fair scheduling: the loop goes on stepping the tasks it has queued, every
\* timer fires and every probe is answered.
SpecService ==
    /\ Init /\ [][NextService]_vars
    /\ WF_vars(\E t \in Tasks : Step(t))
    /\ \A t \in HealthIds : WF_vars(SleepDone(t))
    /\ \A t \in Tasks : WF_vars(PingReply(t))

\* ------------------------------------------------------------ session
CallSession(t) == Call(t, "session")

RunSession(t) == Starts(t, "session") /\ Commit(session(Begin(t), t))

ResumeSession(t) ==
    Resumes(t, "session") /\ Commit(session_resume(Deliver(World, t), t))

\* start_session on an open connection.
StartSessionOk(t) == tasks[t].conn \notin closed /\ Wake(t, "start_session", "ok")

\* start_session on a connection that close() was called on.
StartSessionClosed(t) ==
    tasks[t].conn \in closed /\ Wake(t, "start_session", "InvalidOperation")

\* The caller's work inside the scope returns.
WorkReturns(t) == Wake(t, "work", "ok")

\* The caller's work inside the scope raises.
WorkRaises(t) == Wake(t, "work", "Error")

\* The task that runs session() is cancelled while it waits: in connect(),
\* in start_session or inside the scope.
CancelRequest(t) ==
    /\ tasks[t].op = "session" /\ tasks[t].st = "waiting"
    /\ Commit(Cancel(World, t))

\* The handle with session() among the calls. The store may be unreachable
\* when a caller's connect() probes it; the probes of the health-check tasks
\* find it reachable.
NextSession ==
    \/ \E t \in Callers : CallDisconnect(t)
    \/ \E t \in Callers : CallSession(t)
    \/ \E t \in Callers : RunDisconnect(t)
    \/ \E t \in Callers : RunSession(t)
    \/ \E t \in Tasks : ResumeConnect(t)
    \/ \E t \in Tasks : ResumeDisconnect(t)
    \/ \E t \in HealthIds : ResumeIsConnected(t)
    \/ \E t \in Callers : ResumeSession(t)
    \/ \E t \in HealthIds : HealthStart(t)
    \/ \E t \in HealthIds : HealthWake(t)
    \/ \E t \in HealthIds : HealthBackoffWake(t)
    \/ \E t \in Tasks : PingOk(t)
    \/ \E t \in Callers : PingConnectionFailure(t)
    \/ \E t \in Tasks : PingClosed(t)
    \/ \E t \in Callers : StartSessionOk(t)
    \/ \E t \in Callers : StartSessionClosed(t)
    \/ \E t \in Callers : WorkReturns(t)
    \/ \E t \in Callers : WorkRaises(t)
    \/ \E t \in Callers : CancelRequest(t)
    \/ \E t \in HealthIds : SleepDone(t)
    \/ Tick

SpecSession == Init /\ [][NextSession]_vars

\* --------------------------------------------------------- repository
\* bson ObjectId(id): the identifier an id string denotes; 0 stands for the
\* InvalidId error of a string that denotes none.
ObjectId(id) ==
    CASE id = "1" -> 1
      [] id = "2" -> 2
      [] id = "3" -> 3
      [] OTHER -> 0

\* The dict without key k: `del entity[k]`.
Del(entity, k) == [f \in (DOMAIN entity) \ {k} |-> entity[f]]

\* MongoDBRepository.update with lines 57-58 left out: the entity is
\* forwarded as it came.
update_forwarding_id(id, entity, collection) ==
    IF ObjectId(id) = 0
    THEN [NoUpdate EXCEPT !.pc = "done", !.id = id, !.arg = entity, !.entity = entity,
                          !.res = "InvalidId"]
    ELSE IF collection # "Collection"
    THEN [NoUpdate EXCEPT !.pc = "done", !.id = id, !.arg = entity, !.entity = entity,
                          !.res = collection]
    ELSE [NoUpdate EXCEPT !.pc = "sent", !.id = id, !.arg = entity, !.entity = entity,
                          !.query = ObjectId(id), !.set = entity]

\* MongoDBRepository.update up to its await: "_id" is deleted from the
\* caller's dict, ObjectId(id) is built, MongoOperation.update_one resolves
\* the collection (which fails on a handle that is not initialised) and sends
\* the filter {"_id": ObjectId(id)} and the update {"$set": entity}.
update(id, entity, collection) ==
    LET e == IF "_id" \in DOMAIN entity THEN Del(entity, "_id") ELSE entity IN
    IF ObjectId(id) = 0
    THEN [NoUpdate EXCEPT !.pc = "done", !.id = id, !.arg = entity, !.entity = e,
                          !.res = "InvalidId"]
    ELSE IF collection # "Collection"
    THEN [NoUpdate EXCEPT !.pc = "done", !.id = id, !.arg = entity, !.entity = e,
                          !.res = collection]
    ELSE [NoUpdate EXCEPT !.pc = "sent", !.id = id, !.arg = entity, !.entity = e,
                          !.query = ObjectId(id), !.set = e]

\* The document d after {"$set": set}.
Set(d, set) == [f \in DOMAIN d |-> IF f \in DOMAIN set THEN set[f] ELSE d[f]]

\* update(id, entity) is called; collection is what get_collection() gives
\* on the handle as it is then.
UpdateCall(id, entity, collection) ==
    /\ upd.pc \in {"idle", "done"}
    /\ updates < MaxUpdates
    /\ updates' = updates + 1
    /\ upd' = update(id, entity, collection)
    /\ UNCHANGED <<documents, handle, registry>>

\* The store has no document under the filter's identifier: nothing is modified.
StoreNoMatch ==
    /\ upd.pc = "sent" /\ upd.out = "none"
    /\ upd.query \notin DocIds
    /\ upd' = [upd EXCEPT !.out = "0"]
    /\ UNCHANGED <<documents, updates, handle, registry>>

\* The store applies the update to the document under the filter's
\* identifier; modified_count is 1 when the document changed. "_id" is
\* immutable in the store: a $set that would change it is not applied.
StoreUpdates ==
    /\ upd.pc = "sent" /\ upd.out = "none"
    /\ upd.query \in DocIds
    /\ "_id" \in DOMAIN upd.set => upd.set["_id"] = documents[upd.query]._id
    /\ LET d == Set(documents[upd.query], upd.set) IN
         /\ documents' = [documents EXCEPT ![upd.query] = d]
         /\ upd' = [upd EXCEPT !.out = IF d = documents[upd.query] THEN "0" ELSE "1"]
    /\ UNCHANGED <<updates, handle, registry>>

\* A store older than 5.0 refuses an empty $set.
StoreRejectsEmpty ==
    /\ upd.pc = "sent" /\ upd.out = "none"
    /\ DOMAIN upd.set = {}
    /\ upd' = [upd EXCEPT !.out = "WriteError"]
    /\ UNCHANGED <<documents, updates, handle, registry>>

\* update(), after its await: `return result > 0`, or the store's error.
UpdateReturn ==
    /\ upd.pc = "sent" /\ upd.out # "none"
    /\ upd' = [upd EXCEPT !.pc = "done",
                          !.res = CASE upd.out = "1" -> "True"
                                    [] upd.out = "0" -> "False"
                                    [] OTHER -> upd.out]
    /\ UNCHANGED <<documents, updates, handle, registry>>

NextRepository ==
    \/ \E id \in IdStrings : \E entity \in Entities :
          \E collection \in {"Collection", "ConnectionError"} :
             UpdateCall(id, entity, collection)
    \/ StoreNoMatch
    \/ StoreUpdates
    \/ StoreRejectsEmpty
    \/ UpdateReturn

SpecRepository == Init /\ [][NextRepository]_vars

\* ------------------------------------------------- startup to shutdown
\* main.py connects the handle at startup and disconnects it at shutdown,
\* while requests may still be refreshing it: one operation more than
\* MaxCalls is needed for a disconnect() to meet another operation on a
\* Connected handle.
CallTeardown(t, op) ==
    /\ tasks[t].st = "idle"
    /\ \A u \in Callers : u < t => tasks[u].op # "none"
    /\ calls < MaxTeardownCalls
    /\ calls' = calls + 1
    /\ tasks' = [tasks EXCEPT ![t] = [Blank("caller", "ready") EXCEPT
                                          !.op = op, !.await = "start"]]
    /\ ready' = Append(ready, t)
    /\ UNCHANGED <<client, is_ready, last_refresh_time, health_check_task, lock,
                   opened, closed, now, sessions, registry,
                   repository>>

StartupConnect(t) == CallTeardown(t, "connect")

ShutdownDisconnect(t) == CallTeardown(t, "disconnect")

RequestRefresh(t) == CallTeardown(t, "refresh_connection")

NextTeardown ==
    \/ \E t \in Callers : StartupConnect(t)
    \/ \E t \in Callers : ShutdownDisconnect(t)
    \/ \E t \in Callers : RequestRefresh(t)
    \/ \E t \in Callers : RunConnect(t)
    \/ \E t \in Callers : RunDisconnect(t)
    \/ \E t \in Callers : RunRefresh(t)
    \/ \E t \in Tasks : ResumeConnect(t)
    \/ \E t \in Tasks : ResumeDisconnect(t)
    \/ \E t \in HealthIds : ResumeIsConnected(t)
    \/ \E t \in HealthIds : HealthStart(t)
    \/ \E t \in HealthIds : HealthWake(t)
    \/ \E t \in HealthIds : HealthBackoffWake(t)
    \/ \E t \in Tasks : PingOk(t)
    \/ \E t \in Tasks : PingClosed(t)
    \/ \E t \in HealthIds : SleepDone(t)
    \/ Tick

SpecTeardown == Init /\ [][NextTeardown]_vars

\* ------------------------------------------------ MongoDBClientFactory
\* The registry is used from threads: a thread may be switched out between
\* any two lines of create_client.  pc is the line a thread is at, 0 when it
\* is in no operation.

\* register_config: the config stored under the name is replaced.
register_config(t, n, c) ==
    /\ threads[t].pc = 0 /\ ops < MaxOps
    /\ ops' = ops + 1
    /\ configs' = [configs EXCEPT ![n] = c]
    /\ threads' = [threads EXCEPT ![t] = [pc |-> 0, op |-> "register_config",
                                          calls |-> threads[t].calls + 1, name |-> n,
                                          config |-> None, client |-> None,
                                          err |-> "none"]]
    /\ UNCHANGED <<clients, handles, returned, handle, repository>>

\* create_client that builds a handle from no config for an unregistered name.
create_client_45_unchecked(t, n) ==
    /\ threads[t].pc = 0 /\ ops < MaxOps
    /\ ops' = ops + 1
    /\ threads' = [threads EXCEPT ![t] = [pc |-> 48, op |-> "create_client",
                                          calls |-> threads[t].calls + 1, name |-> n,
                                          config |-> None, client |-> None,
                                          err |-> "none"]]
    /\ UNCHANGED <<configs, clients, handles, returned, handle, repository>>

\* create_client, lines 45-46: ValueError for a name with no config.
create_client_45(t, n) ==
    /\ threads[t].pc = 0 /\ ops < MaxOps
    /\ ops' = ops + 1
    /\ threads' = [threads EXCEPT ![t] =
           [pc |-> IF configs[n] = None THEN 0 ELSE 48, op |-> "create_client",
            calls |-> threads[t].calls + 1, name |-> n, config |-> None,
            client |-> None, err |-> IF configs[n] = None THEN "ValueError" ELSE "none"]]
    /\ UNCHANGED <<configs, clients, handles, returned, handle, repository>>

\* create_client that does not look for an existing handle.
create_client_48_always(t) ==
    /\ threads[t].pc = 48
    /\ threads' = [threads EXCEPT ![t].pc = 49]
    /\ UNCHANGED <<configs, clients, handles, returned, ops, handle, repository>>

\* create_client, line 48: is there a handle for the name already?
create_client_48(t) ==
    /\ threads[t].pc = 48
    /\ threads' = [threads EXCEPT ![t].pc =
                       IF clients[threads[t].name] = None THEN 49 ELSE 53]
    /\ UNCHANGED <<configs, clients, handles, returned, ops, handle, repository>>

\* create_client, line 49: the config stored under the name now.
create_client_49(t) ==
    /\ threads[t].pc = 49
    /\ threads' = [threads EXCEPT ![t].pc = 50,
                                  ![t].config = configs[threads[t].name]]
    /\ UNCHANGED <<configs, clients, handles, returned, ops, handle, repository>>

\* create_client, line 50: MongoDBClient(config); __init__ keeps the config.
create_client_50(t) ==
    /\ threads[t].pc = 50
    /\ handles' = Append(handles, [name |-> threads[t].name,
                                   config |-> threads[t].config, used |-> None])
    /\ threads' = [threads EXCEPT ![t].pc = 51, ![t].client = Len(handles) + 1]
    /\ UNCHANGED <<configs, clients, returned, ops, handle, repository>>

\* create_client, line 51: the handle is stored under the name.
create_client_51(t) ==
    /\ threads[t].pc = 51
    /\ clients' = [clients EXCEPT ![threads[t].name] = threads[t].client]
    /\ threads' = [threads EXCEPT ![t].pc = 53]
    /\ UNCHANGED <<configs, handles, returned, ops, handle, repository>>

\* create_client, line 53: the handle stored under the name is returned.
create_client_53(t) ==
    /\ threads[t].pc = 53
    /\ returned' = [returned EXCEPT ![threads[t].name] = Append(@, clients[threads[t].name])]
    /\ threads' = [threads EXCEPT ![t].pc = 0,
                                  ![t].client = clients[threads[t].name]]
    /\ UNCHANGED <<configs, clients, handles, ops, handle, repository>>

\* connect() of a handle that reads the registry's config for its name.
handle_connect_rereading(h) ==
    /\ h \in 1..Len(handles)
    /\ handles' = [handles EXCEPT ![h].used = configs[handles[h].name]]
    /\ UNCHANGED <<configs, clients, threads, returned, ops, handle, repository>>

\* connect() of a constructed handle, also inside its refreshes: the
\* connection is opened with self.config.
handle_connect(h) ==
    /\ h \in 1..Len(handles)
    /\ handles' = [handles EXCEPT ![h].used = handles[h].config]
    /\ UNCHANGED <<configs, clients, threads, returned, ops, handle, repository>>

\* The threads run as they are scheduled.
NextRegistry ==
    \/ \E t \in Threads, n \in Names, c \in Configs : register_config(t, n, c)
    \/ \E t \in Threads, n \in Names : create_client_45(t, n)
    \/ \E t \in Threads : create_client_48(t)
    \/ \E t \in Threads : create_client_49(t)
    \/ \E t \in Threads : create_client_50(t)
    \/ \E t \in Threads : create_client_51(t)
    \/ \E t \in Threads : create_client_53(t)
    \/ \E h \in 1..MaxOps : handle_connect(h)

SpecRegistry == Init /\ [][NextRegistry]_vars

\* One thread: the operations follow one another.
MainThread == 1

NextRegistrySequential ==
    \/ \E n \in Names, c \in Configs : register_config(MainThread, n, c)
    \/ \E n \in Names : create_client_45(MainThread, n)
    \/ create_client_48(MainThread)
    \/ create_client_49(MainThread)
    \/ create_client_50(MainThread)
    \/ create_client_51(MainThread)
    \/ create_client_53(MainThread)
    \/ \E h \in 1..MaxOps : handle_connect(h)

SpecRegistrySequential == Init /\ [][NextRegistrySequential]_vars

\* -------------------------------------------------------------- claims

\* Health-check tasks that were created and have not ended.
LiveHealth == {h \in HealthIds : tasks[h].st \notin {"none", "done"}}

\* Connection objects opened and not closed.
Unclosed == (1..opened) \ closed

\* Task t is inside the with block of refresh_connection().
InsideRefresh(t) == "refresh_connection" \in Range(tasks[t].stack)

\* Caller t's operation op has returned v (or raised v) and t has called nothing since.
Returned(t, op, v) ==
    tasks[t].st = "idle" /\ tasks[t].op = op /\ tasks[t].res = v

\* This step ends caller t's operation op with v.
Returns(t, op, v) ==
    /\ tasks[t].op = op /\ tasks[t].st # "idle"
    /\ tasks'[t].st = "idle" /\ tasks'[t].res = v

\* This step is the first step of caller t's operation op.
FirstStep(t, op) == Starts(t, op) /\ tasks'[t].st # "ready"

\* The step leaves the handle, its connections and its health-check tasks as they were.
HandleUnchanged ==
    /\ UNCHANGED <<client, is_ready, last_refresh_time, health_check_task, lock,
                   opened, closed>>
    /\ \A h \in HealthIds : tasks'[h] = tasks[h]

\* C1: refresh_connection() is mutually exclusive per handle: at most one task
\* is between the start of its disconnect() half and the end of its connect()
\* half.
C1_RefreshMutuallyExclusive ==
    Cardinality({t \in Tasks : InsideRefresh(t)}) <= 1

\* C2: with the store reachable, two connection objects opened by the handle
\* are never both un-closed, and once the refresh_connection() calls of both
\* callers have returned the handle's connection object is non-null and is
\* the single un-closed connection.
C2_OneLiveConnection ==
    /\ Cardinality(Unclosed) <= 1
    /\ (\A t \in Callers : Returned(t, "refresh_connection", "None"))
          => (client # None /\ Unclosed = {client})

\* Both refresh_connection() calls have returned, the second having started
\* while the first was inside its with block, and each opened a connection.
C2_Witness ==
    /\ \A t \in Callers : Returned(t, "refresh_connection", "None")
    /\ \E t \in Callers : tasks[t].raced
    /\ opened >= 2

\* C3: when an explicit disconnect() returns, no operation of another caller
\* being in progress, no health-check loop of the handle is still running.
C3_DisconnectStopsHealthLoops ==
    [][\A t \in Callers :
          (Returns(t, "disconnect", "None")
             /\ \A u \in Callers \ {t} : tasks[u].st = "idle")
          => LiveHealth' = {}]_vars

\* C4: at most one health-check loop task of the handle is live; stated for
\* the states a single caller operation leads to, where no two operations of
\* callers can have raced.
C4_AtMostOneHealthLoop == calls <= 1 => Cardinality(LiveHealth) <= 1

\* C5: no health-check loop is waiting on a liveness probe against a
\* connection that disconnect() has closed.
C5_NoProbeOnClosedConnection ==
    \A h \in LiveHealth :
        (tasks[h].st = "waiting" /\ tasks[h].await = "ping") => tasks[h].conn \notin closed

\* C6: whenever connect() returns without raising, the store reachable, an
\* is_connected() made at once yields true: there is a connection object, it
\* is open and the handle is marked healthy.
C6_ConnectReturnsConnected ==
    [][\A t \in Callers :
          Returns(t, "connect", "None")
          => (client' # None /\ is_ready' /\ client' \notin closed')]_vars

\* C7: when connect() raises the probe's ConnectionFailure, the handle ends
\* Disconnected: no connection object, health false, no health-check task.
C7_FailedConnectLeavesDisconnected ==
    [][\A t \in Callers :
          Returns(t, "connect", "ConnectionFailure")
          => (client' = None /\ ~is_ready' /\ health_check_task' = None)]_vars

\* C8: with the store reachable, every refresh_connection() that returns
\* leaves the handle Connected: connection object present, health true, a
\* health-check task kept.
C8_RefreshLeavesConnected ==
    [][\A t \in Callers :
          Returns(t, "refresh_connection", "None") => Connected']_vars

\* C9: connect() on a handle that is Connected is a no-op: it returns without
\* opening a connection, and leaves the connection object, the health flag,
\* last_refresh_time, the health-check task and every health-check loop as
\* they were.
C9_ConnectWhenConnectedIsNoOp ==
    [][\A t \in Callers :
          (FirstStep(t, "connect") /\ Connected)
          => (HandleUnchanged /\ Returns(t, "connect", "None"))]_vars

\* A connect() that found the handle Connected has returned.
C9_Witness ==
    \E t \in Callers :
        Returned(t, "connect", "None") /\ tasks[t].pre = "Connected" /\ Connected

\* C10: disconnect() on a handle with no connection object returns without
\* raising and changes no field; and a disconnect() that returns leaves no
\* connection object, so that a second disconnect() after it is that no-op.
C10_DisconnectWhenDisconnectedIsNoOp ==
    [][\A t \in Callers :
          /\ (FirstStep(t, "disconnect") /\ client = None)
                => (HandleUnchanged /\ Returns(t, "disconnect", "None"))
          /\ Returns(t, "disconnect", "None") => client' = None]_vars

\* Two disconnect() calls on a handle with no connection object have returned.
C10_Witness ==
    /\ \A t \in Callers :
          Returned(t, "disconnect", "None") /\ tasks[t].pre = "absent"
    /\ client = None /\ ~is_ready /\ health_check_task = None

\* This step resumes caller t's is_connected() with the outcome of its probe.
ProbeReply(t) ==
    /\ t \in Callers /\ tasks[t].op = "is_connected"
    /\ AtHead(t) /\ tasks[t].await = "ping" /\ tasks'[t].st # "ready"

\* This step leaves caller t's is_connected() waiting on a probe of the
\* handle's connection object.
IssuesProbe(t) ==
    /\ tasks'[t].st = "waiting" /\ tasks'[t].await = "ping"
    /\ tasks'[t].conn = client /\ client # None

\* C11, as stated: is_connected() returns false without a probe when no
\* connection object exists and otherwise issues the probe.
C11_ProbesWheneverConnectionExists ==
    [][\A t \in Callers :
          FirstStep(t, "is_connected")
             => IF client = None
                THEN HandleUnchanged /\ Returns(t, "is_connected", "False")
                ELSE HandleUnchanged /\ IssuesProbe(t)]_vars

\* C11: is_connected() never raises; it returns false without a probe when
\* no connection object exists or the handle's health is false, and otherwise
\* issues the probe; it returns true exactly when that probe succeeds, and on
\* any probe failure it marks the handle's health false and returns false.
C11_IsConnectedNeverRaises ==
    [][\A t \in Callers :
          /\ FirstStep(t, "is_connected")
                => IF client = None \/ ~is_ready
                   THEN HandleUnchanged /\ Returns(t, "is_connected", "False")
                   ELSE HandleUnchanged /\ IssuesProbe(t)
          /\ ProbeReply(t)
                => IF tasks[t].out = "ok"
                   THEN HandleUnchanged /\ Returns(t, "is_connected", "True")
                   ELSE ~is_ready' /\ Returns(t, "is_connected", "False")
          /\ (tasks[t].op = "is_connected" /\ tasks[t].st # "idle"
                 /\ tasks'[t].st = "idle")
                => (tasks'[t].res \in {"True", "False"}
                    /\ (tasks'[t].res = "True" => (ProbeReply(t) /\ tasks[t].out = "ok")))]_vars

\* An is_connected() on a Connected handle has returned false: its probe
\* failed and the handle's health is false.
C11_Witness ==
    \E t \in Callers :
        /\ Returned(t, "is_connected", "False") /\ tasks[t].pre = "Connected"
        /\ client # None /\ ~is_ready

\* C12: a read that overlaps a refresh_connection() does not corrupt the
\* handle: when the reply to an is_connected() probe arrives after a refresh
\* has completed and left the handle Connected, the handle stays Connected
\* with health true.
C12_OverlappingReadKeepsHandleConnected ==
    [][\A t \in Callers :
          (ProbeReply(t) /\ Connected /\ lock.count = 0 /\ tasks[t].conn # client)
             => Connected']_vars

\* The handle has no successfully established connection: it never
\* connected, its last connect() failed, or it was disconnected, and no
\* connect() is under way.
NotEstablished ==
    /\ ~is_ready
    /\ \A u \in Tasks : "connect" \notin Range(tasks[u].stack)

\* C13: get_database() and get_collection() on a handle with no successfully
\* established connection fail with the "not initialized" condition
\* (ConnectionError) and leave the handle as it was: they never connect.
C13_LookupFailsWhenNotEstablished ==
    [][\A t \in Callers : \A op \in {"get_database", "get_collection"} :
          (FirstStep(t, op) /\ NotEstablished)
             => (Returns(t, op, "ConnectionError") /\ HandleUnchanged)]_vars

\* C20: an operation of the facade resolves its collection from the handle
\* when it is called: its store call is issued on the connection object the
\* handle holds at that moment, which is never a closed one, and with no
\* connection object the operation fails with ConnectionError; the handle is
\* left as it was.
C20_OperationResolvesAtCallTime ==
    [][\A t \in Callers :
          FirstStep(t, "find_one")
             => /\ HandleUnchanged
                /\ IF client = None
                   THEN Returns(t, "find_one", "ConnectionError")
                   ELSE /\ tasks'[t].st = "waiting" /\ tasks'[t].await = "store"
                        /\ tasks'[t].conn = client /\ client \notin closed]_vars

\* An operation started after a refresh replaced the connection awaits its
\* store call on the new connection.
C20_Witness ==
    \E t \in Callers :
        /\ tasks[t].op = "find_one" /\ tasks[t].st = "waiting"
        /\ tasks[t].await = "store" /\ tasks[t].conn = client
        /\ closed # {} /\ client \notin closed

\* The handles constructed for name n.
Constructed(n) == {h \in 1..Len(handles) : handles[h].name = n}

\* Every create_client(n) that has returned gave the same handle.
SameInstance(n) ==
    \A i, j \in 1..Len(returned[n]) : returned[n][i] = returned[n][j]

\* This step is thread t calling operation op of the registry.
Invokes(t, op) ==
    threads'[t].calls = threads[t].calls + 1 /\ threads'[t].op = op

\* C14: in a sequence of register_config and create_client operations, all
\* create_client(name) calls for a name return the same handle instance, and
\* the registry holds at most one handle for the name: the one it returns.
C14_SameHandlePerName ==
    \A n \in Names :
        /\ SameInstance(n)
        /\ Cardinality(Constructed(n)) <= 1
        /\ clients[n] # None => (Constructed(n) = {clients[n]}
                                 /\ Range(returned[n]) \subseteq {clients[n]})

\* create_client has returned three times for one name.
C14_Witness ==
    \E n \in Names : Len(returned[n]) >= 3 /\ clients[n] # None

\* C15: create_client(name) for a name with no registered config fails with
\* ValueError, the "config not found" condition, and changes neither map nor
\* constructs a handle; no handle is ever built from a missing config.
C15_UnregisteredNameFails ==
    [][/\ \A t \in Threads :
            (Invokes(t, "create_client") /\ configs[threads'[t].name] = None)
               => /\ threads'[t].err = "ValueError" /\ threads'[t].pc = 0
                  /\ UNCHANGED <<configs, clients, handles, returned>>
       /\ \A h \in 1..Len(handles') : handles'[h].config # None]_vars

\* A create_client for an unregistered name has failed while the other name
\* is registered and has its handle.
C15_Witness ==
    \E t \in Threads :
        /\ threads[t].op = "create_client" /\ threads[t].err = "ValueError"
        /\ configs[threads[t].name] = None /\ clients[threads[t].name] = None
        /\ \E n \in Names : clients[n] # None

\* C16: when several threads call create_client(name) at once for a name
\* that has no handle yet, exactly one handle is constructed and every caller
\* receives that instance.
C16_ConcurrentFirstAccessMakesOneHandle ==
    \A n \in Names :
        /\ Cardinality(Constructed(n)) <= 1
        /\ \A t, u \in Threads :
              (/\ threads[t].op = "create_client" /\ threads[u].op = "create_client"
               /\ threads[t].name = n /\ threads[u].name = n
               /\ threads[t].pc = 0 /\ threads[u].pc = 0
               /\ threads[t].err = "none" /\ threads[u].err = "none")
                 => threads[t].client = threads[u].client

\* C17: register_config replaces the config of a name and leaves the handles
\* alone: no step changes the config a handle was constructed with, a handle
\* opens its connections with that config whatever the registry holds now,
\* and the handle stored under a name stays the one stored.
C17_HandlePinnedToItsConfig ==
    [][/\ \A h \in 1..Len(handles) :
            /\ handles'[h].config = handles[h].config
            /\ handles'[h].used \in {handles[h].used, handles[h].config}
       /\ \A n \in Names : clients[n] # None => clients'[n] = clients[n]
       /\ \A t \in Threads :
            Invokes(t, "register_config")
               => /\ UNCHANGED <<clients, handles, returned>>
                  /\ \A n \in Names \ {threads'[t].name} : configs'[n] = configs[n]]_vars

\* A handle has opened a connection with its own config after another config
\* was registered under its name, and create_client has returned it since.
C17_Witness ==
    \E n \in Names :
        /\ clients[n] # None /\ configs[n] # handles[clients[n]].config
        /\ handles[clients[n]].used = handles[clients[n]].config
        /\ Len(returned[n]) >= 2 /\ SameInstance(n)

\* This step runs health-check task h.
HealthSteps(h) == AtHead(h) /\ tasks'[h].st # "ready"

\* Health-check task h is in its back-off sleep, out of every with block.
InBackoff(tk) ==
    /\ tk.st = "waiting" /\ tk.await = "sleep" /\ tk.line = 197
    /\ tk.stack = <<"health_check_routine">>

\* C19: a health-check task ends only in a step in which CancelledError is
\* thrown into it; a probe failure inside its refresh_connection() is caught
\* and followed by the back-off sleep, and after the back-off the loop runs
\* a new iteration.
C19_LoopEndsOnlyByCancellation ==
    [][\A h \in HealthIds :
          /\ (tasks[h].st \notin {"none", "done"} /\ tasks'[h].st = "done")
                => (HealthSteps(h)
                    /\ (tasks[h].must_cancel \/ tasks[h].out = "CancelledError"))
          /\ (HealthSteps(h) /\ ~tasks[h].must_cancel
                 /\ tasks[h].await = "ping"
                 /\ tasks[h].out \notin {"ok", "CancelledError"}
                 /\ Top(World, h) = "connect")
                => InBackoff(tasks'[h])
          /\ (HealthSteps(h) /\ ~tasks[h].must_cancel /\ InBackoff([tasks[h] EXCEPT !.st = "waiting"])
                 /\ tasks[h].out = "ok")
                => (tasks'[h].st # "done" /\ ~InBackoff(tasks'[h])
                    /\ tasks'[h].stack[1] = "health_check_routine")]_vars

\* A health-check task is in its back-off after a failed refresh, the
\* handle unhealthy.
C19_Witness ==
    \E h \in HealthIds : InBackoff(tasks[h]) /\ ~is_ready /\ client # None

\* No caller is using the handle and none will.
CallersQuiet == calls = MaxCalls /\ \A t \in Callers : tasks[t].st = "idle"

\* The handle was Connected (a health-check task was started) and a probe
\* failure has since marked it unhealthy; the callers are quiet and a
\* connection object may still be opened.
MarkedUnhealthy ==
    /\ client # None /\ ~is_ready
    /\ \E h \in HealthIds : tasks[h].st # "none"
    /\ CallersQuiet /\ opened < MaxConns

\* A health-check task is inside refresh_connection().
RefreshAttempted == \E h \in HealthIds : InsideRefresh(h)

\* C18: whenever a probe failure has marked the handle unhealthy, then with
\* fair scheduling and no caller action the health-check loop eventually
\* attempts refresh_connection().
C18_UnhealthyLeadsToRefresh == MarkedUnhealthy ~> RefreshAttempted

\* C23: in every reachable state the health flag is true only if a
\* connection object is present, and a health-check task is running only if
\* a connection object is present.
C23_HealthImpliesConnection ==
    /\ is_ready => client # None
    /\ LiveHealth # {} => client # None

\* C24: disconnect() never raises, also when it overlaps another
\* disconnect() or a refresh_connection() on the handle: it never calls
\* close() on an absent connection object.
C24_DisconnectNeverRaises ==
    [][\A t \in Callers :
          (tasks[t].op = "disconnect" /\ tasks[t].st # "idle" /\ tasks'[t].st = "idle")
             => tasks'[t].res = "None"]_vars

\* This step yields a store session to caller t.
Yields(t) == t \notin sessions /\ t \in sessions'

\* C21: session() connects first when the handle holds no connection object,
\* yields a store session only on a handle whose connection was established
\* (or is being established by a connect() under way), and has released the
\* session whenever the scope has been left: by return, by an error of the
\* caller's work, or by cancellation.
C21_SessionScoped ==
    [][\A t \in Callers :
          /\ (FirstStep(t, "session") /\ client = None)
                => "connect" \in Range(tasks'[t].stack)
          /\ Yields(t) => ~NotEstablished'
          /\ (tasks[t].op = "session" /\ tasks'[t].st = "idle") => t \notin sessions']_vars

\* C22: update(id, entity) never forwards an identifier field to the store:
\* whatever the entity, with or without "_id" and whatever its value, the
\* $set document sent to update_one has no "_id" key, and every stored
\* document keeps its identifier.
C22_UpdateNeverForwardsId ==
    [][/\ upd'.pc = "sent" => "_id" \notin DOMAIN upd'.set
       /\ \A d \in DocIds : documents'[d]._id = documents[d]._id]_vars

\* An entity carrying an "_id" other than the target's was passed, its other
\* field was stored and update() returned True.
C22_Witness ==
    /\ upd.pc = "done" /\ upd.res = "True"
    /\ "_id" \in DOMAIN upd.arg /\ upd.arg["_id"] # ObjectId(upd.id)
    /\ "name" \in DOMAIN upd.arg /\ documents[upd.query].name = upd.arg["name"]
    /\ documents[upd.query]._id = upd.query
====
